---- MODULE Spec2Model ----
(***************************************************************************)
(* Model of crates/collab_ui/src/collab_ui.rs: the three call toggle       *)
(* actions, notification_window_options and format_timestamp.              *)
(*                                                                         *)
(* Three specifications share the variables:                               *)
(*   SpecFmt     format_timestamp applied to enumerated arguments          *)
(*   SpecWin     notification_window_options applied to enumerated screens *)
(*   SpecToggle  dispatches of the toggle actions against the active call  *)
(***************************************************************************)
EXTENDS Integers, Sequences, FiniteSets, TLC

VARIABLES
    \* format_timestamp: its three arguments and its return value
    timestamp, now, local_timezone, result,
    \* notification_window_options: its two arguments and its return value
    screen, window_size, options,
    \* the active call: the registry's room and the room's own state
    room, muted, deafened, sharing,
    \* what the toggle actions did, in program order: telemetry reports, room
    \* method calls and logged errors; the detached tasks still running; whether
    \* an error reached the dispatcher
    trace, tasks, propagated,
    \* bookkeeping: the actions dispatched so far, room operations failed so far
    dispatched, failures

fmtVars == <<timestamp, now, local_timezone, result>>
winVars == <<screen, window_size, options>>
roomVars == <<room, muted, deafened, sharing>>
toggleVars == <<room, muted, deafened, sharing, trace, tasks,
                propagated, dispatched, failures>>
vars == <<timestamp, now, local_timezone, result, screen, window_size, options,
          room, muted, deafened, sharing, trace, tasks, propagated,
          dispatched, failures>>

(***************************************************************************)
(* The calendar of the time crate, as format_timestamp uses it.            *)
(***************************************************************************)

\* Date::MAX is December 31 of this year, Date::MIN January 1 of its negation.
MAX_YEAR == 9999

is_leap_year(y) == (y % 4 = 0) /\ ((y % 100 # 0) \/ (y % 400 = 0))

days_in_month(y, m) ==
    IF m = 2 THEN (IF is_leap_year(y) THEN 29 ELSE 28)
    ELSE IF m \in {4, 6, 9, 11} THEN 30 ELSE 31

None == [none |-> TRUE]
Some(x) == [some |-> x]

MkDate(y, m, d) == [year |-> y, month |-> m, day |-> d]

\* Date::next_day: None on Date::MAX, else the following calendar date.
next_day(date) ==
    IF date.year = MAX_YEAR /\ date.month = 12 /\ date.day = 31 THEN None
    ELSE IF date.day < days_in_month(date.year, date.month)
         THEN Some(MkDate(date.year, date.month, date.day + 1))
    ELSE IF date.month < 12 THEN Some(MkDate(date.year, date.month + 1, 1))
    ELSE Some(MkDate(date.year + 1, 1, 1))

\* Date::previous_day: None on Date::MIN, else the preceding calendar date.
previous_day(date) ==
    IF date.year = -MAX_YEAR /\ date.month = 1 /\ date.day = 1 THEN None
    ELSE IF date.day > 1 THEN Some(MkDate(date.year, date.month, date.day - 1))
    ELSE IF date.month > 1
         THEN Some(MkDate(date.year, date.month - 1,
                          days_in_month(date.year, date.month - 1)))
    ELSE Some(MkDate(date.year - 1, 12, 31))

(***************************************************************************)
(* OffsetDateTime: a local date and clock time together with the UTC       *)
(* offset they are expressed in.  Offsets are whole minutes.               *)
(***************************************************************************)

MkDateTime(date, h, mi, off) ==
    [date |-> date, hour |-> h, minute |-> mi, offset |-> off]

\* UtcOffset::whole_hours and UtcOffset::minutes_past_hour: both carry the
\* sign of the offset (division truncates toward zero).
whole_hours(off) == IF off >= 0 THEN off \div 60 ELSE -((-off) \div 60)
minutes_past_hour(off) == off - 60 * whole_hours(off)

\* OffsetDateTime::checked_to_offset: the same instant under another offset.
\* Minute and hour are shifted by the difference of the offsets and carried
\* into the date; None when the local date leaves Date::MIN..Date::MAX.
checked_to_offset(dt, to) ==
    IF dt.offset = to THEN Some(dt)
    ELSE
    LET m0 == dt.minute - minutes_past_hour(dt.offset) + minutes_past_hour(to)
        h0 == dt.hour - whole_hours(dt.offset) + whole_hours(to)
        mi == IF m0 >= 60 THEN m0 - 60 ELSE IF m0 < 0 THEN m0 + 60 ELSE m0
        h1 == IF m0 >= 60 THEN h0 + 1 ELSE IF m0 < 0 THEN h0 - 1 ELSE h0
        h  == IF h1 >= 24 THEN h1 - 24 ELSE IF h1 < 0 THEN h1 + 24 ELSE h1
        d  == IF h1 >= 24 THEN next_day(dt.date)
              ELSE IF h1 < 0 THEN previous_day(dt.date)
              ELSE Some(dt.date)
    IN IF d = None THEN None ELSE Some(MkDateTime(d.some, h, mi, to))

\* OffsetDateTime::to_offset is checked_to_offset(..).expect(..): None here
\* stands for the panic "local datetime out of valid range".
to_offset(dt, to) == checked_to_offset(dt, to)

(***************************************************************************)
(* format!: decimal rendering of unsigned fields.                          *)
(***************************************************************************)

Digit(n) ==
    CASE n = 0 -> "0" [] n = 1 -> "1" [] n = 2 -> "2" [] n = 3 -> "3"
      [] n = 4 -> "4" [] n = 5 -> "5" [] n = 6 -> "6" [] n = 7 -> "7"
      [] n = 8 -> "8" [] n = 9 -> "9"

RECURSIVE Dec(_)
\* "{}": the decimal digits, no padding; a minus sign for negative values.
Dec(n) ==
    IF n < 0 THEN "-" \o Dec(-n)
    ELSE IF n < 10 THEN Digit(n)
    ELSE Dec(n \div 10) \o Digit(n % 10)

\* "{:02}": zero-padded to a width of at least two.
Pad2(n) == IF n >= 0 /\ n < 10 THEN "0" \o Digit(n) ELSE Dec(n)

(***************************************************************************)
(* format_timestamp                                                        *)
(***************************************************************************)

Panicked == [panic |-> TRUE, text |-> ""]
Returned(s) == [panic |-> FALSE, text |-> s]

\* lines 177-182: the hour and the am/pm part that are printed
ClockHour(hour) == IF hour > 12 THEN hour - 12 ELSE hour
ClockPart(hour) == IF hour > 12 THEN "pm" ELSE "am"

\* line 184
FormatToday(ts) ==
    Pad2(ClockHour(ts.hour)) \o ":" \o Pad2(ts.minute) \o ClockPart(ts.hour)

\* line 186
FormatYesterday(ts) ==
    "yesterday at " \o Pad2(ClockHour(ts.hour)) \o ":" \o Pad2(ts.minute)
        \o ClockPart(ts.hour)

\* line 188
FormatDatePadded(date) ==
    Pad2(date.month) \o "/" \o Pad2(date.day) \o "/" \o Dec(date.year)
FormatDate(date) ==
    Pad2(date.month) \o "/" \o Dec(date.day) \o "/" \o Dec(date.year)

\* format_timestamp comparing the dates the wrong way round (line 185)
FormatTimestampDayAfter(ts0, now0, tz) ==
    LET ts == to_offset(ts0, tz)
        nw == to_offset(now0, tz)
    IN IF ts = None \/ nw = None THEN Panicked
       ELSE LET today == nw.some.date
                date == ts.some.date
            IN IF date = today THEN Returned(FormatToday(ts.some))
               ELSE IF next_day(today) = Some(date)
                    THEN Returned(FormatYesterday(ts.some))
               ELSE Returned(FormatDate(date))

\* format_timestamp without the conversion of the timestamp (line 172)
FormatTimestampUnconverted(ts0, now0, tz) ==
    LET ts == Some(ts0)
        nw == to_offset(now0, tz)
    IN IF ts = None \/ nw = None THEN Panicked
       ELSE LET today == nw.some.date
                date == ts.some.date
            IN IF date = today THEN Returned(FormatToday(ts.some))
               ELSE IF next_day(date) = Some(today)
                    THEN Returned(FormatYesterday(ts.some))
               ELSE Returned(FormatDate(date))

\* lines 167-190
format_timestamp(ts0, now0, tz) ==
    LET ts == to_offset(ts0, tz)
        nw == to_offset(now0, tz)
    IN IF ts = None \/ nw = None THEN Panicked
       ELSE LET today == nw.some.date
                date == ts.some.date
            IN IF date = today THEN Returned(FormatToday(ts.some))
               ELSE IF next_day(date) = Some(today)
                    THEN Returned(FormatYesterday(ts.some))
               ELSE Returned(FormatDate(date))

(***************************************************************************)
(* SpecFmt: format_timestamp on enumerated arguments.                      *)
(***************************************************************************)

\* Calendar dates around every kind of day boundary: month ends of 28, 29,
\* 30 and 31 days, a year end, a century year without leap day, and the two
\* ends of the representable range.
TimestampDates ==
    { MkDate(2023, 2, 28), MkDate(2023, 3, 1), MkDate(2023, 12, 31),
      MkDate(2024, 1, 1), MkDate(2024, 1, 2), MkDate(2024, 2, 28),
      MkDate(2024, 2, 29), MkDate(2024, 3, 1), MkDate(2024, 4, 30),
      MkDate(2024, 5, 1), MkDate(2100, 2, 28), MkDate(2100, 3, 1),
      MkDate(MAX_YEAR, 12, 30), MkDate(MAX_YEAR, 12, 31),
      MkDate(-MAX_YEAR, 1, 1) }
NowDates ==
    { MkDate(2023, 3, 1), MkDate(2023, 12, 31), MkDate(2024, 1, 1),
      MkDate(2024, 2, 29), MkDate(2024, 3, 1), MkDate(2024, 5, 1),
      MkDate(2100, 3, 1), MkDate(MAX_YEAR, 12, 31), MkDate(-MAX_YEAR, 1, 1) }
TimestampHours == 0 .. 23
TimestampMinutes == {5, 59}
NowHours == {0, 23}
NowMinutes == {30}
\* UTC offsets in minutes: -01:30, UTC, +01:00
Offsets == {-90, 0, 60}

Timestamps ==
    { MkDateTime(d, h, mi, off) :
        d \in TimestampDates, h \in TimestampHours, mi \in TimestampMinutes,
        off \in {-90, 60} }
Nows ==
    { MkDateTime(d, h, mi, off) :
        d \in NowDates, h \in NowHours, mi \in NowMinutes, off \in {0, 60} }

NoResult == [panic |-> FALSE, text |-> "<not called>"]
NoDateTime == MkDateTime(MkDate(1970, 1, 1), 0, 0, 0)
NoScreen ==
    [id |-> 0, content_bounds |-> [origin |-> <<0, 0>>, size |-> <<0, 0>>]]
NoOptions == [bounds |-> "unset"]

ToggleIdle ==
    /\ room = FALSE /\ muted = FALSE /\ deafened = FALSE /\ sharing = FALSE
    /\ trace = <<>> /\ tasks = <<>>
    /\ propagated = FALSE /\ dispatched = <<>> /\ failures = 0
FmtIdle ==
    /\ timestamp = NoDateTime /\ now = NoDateTime /\ local_timezone = 0
    /\ result = NoResult
WinIdle ==
    /\ screen = NoScreen /\ window_size = <<0, 0>> /\ options = NoOptions

InitFmt ==
    /\ timestamp \in Timestamps
    /\ now \in Nows
    /\ local_timezone \in Offsets
    /\ result = NoResult
    /\ WinIdle /\ ToggleIdle

CallFormatTimestamp ==
    /\ result = NoResult
    /\ result' = format_timestamp(timestamp, now, local_timezone)
    /\ UNCHANGED <<timestamp, now, local_timezone>>
    /\ UNCHANGED winVars /\ UNCHANGED toggleVars

NextFmt == CallFormatTimestamp
SpecFmt == InitFmt /\ [][NextFmt]_vars

(***************************************************************************)
(* Reference arithmetic for the properties of format_timestamp: calendar   *)
(* dates as day numbers of the proleptic Gregorian calendar, independent   *)
(* of next_day, previous_day and checked_to_offset above.                  *)
(***************************************************************************)

\* Days from 0000-03-01 to the given date.
DayNumber(date) ==
    LET y   == IF date.month <= 2 THEN date.year - 1 ELSE date.year
        era == y \div 400
        yoe == y - era * 400
        mp  == IF date.month > 2 THEN date.month - 3 ELSE date.month + 9
        doy == (153 * mp + 2) \div 5 + date.day - 1
        doe == yoe * 365 + yoe \div 4 - yoe \div 100 + doy
    IN era * 146097 + doe

\* The calendar date with the given day number.
CivilFromDays(z) ==
    LET era == z \div 146097
        doe == z - era * 146097
        yoe == (doe - doe \div 1460 + doe \div 36524 - doe \div 146096) \div 365
        doy == doe - (365 * yoe + yoe \div 4 - yoe \div 100)
        mp  == (5 * doy + 2) \div 153
        d   == doy - (153 * mp + 2) \div 5 + 1
        m   == IF mp < 10 THEN mp + 3 ELSE mp - 9
        y   == yoe + era * 400
    IN MkDate(IF m <= 2 THEN y + 1 ELSE y, m, d)

MinDay == DayNumber(MkDate(-MAX_YEAR, 1, 1))
MaxDay == DayNumber(MkDate(MAX_YEAR, 12, 31))

\* Minutes from the local midnight of dt's own date to the instant dt, read
\* on a clock set to offset tz.
MinutesIn(dt, tz) == dt.hour * 60 + dt.minute - dt.offset + tz
\* Day number, hour and minute of the instant dt on a clock set to tz.
LocalDay(dt, tz) == DayNumber(dt.date) + (MinutesIn(dt, tz) \div 1440)
LocalHour(dt, tz) == (MinutesIn(dt, tz) % 1440) \div 60
LocalMinute(dt, tz) == (MinutesIn(dt, tz) % 1440) % 60
\* The instant dt has a date on a clock set to tz.
Representable(dt, tz) == LocalDay(dt, tz) \in MinDay .. MaxDay
\* The instant dt as an OffsetDateTime carrying offset tz.
Rebase(dt, tz) ==
    MkDateTime(CivilFromDays(LocalDay(dt, tz)), LocalHour(dt, tz),
               LocalMinute(dt, tz), tz)

Called == result # NoResult
BothRepresentable ==
    /\ Representable(timestamp, local_timezone)
    /\ Representable(now, local_timezone)
\* Local calendar days from the timestamp to now.
DaysAgo == LocalDay(now, local_timezone) - LocalDay(timestamp, local_timezone)

HasPrefix(s, p) == Len(s) >= Len(p) /\ SubSeq(s, 1, Len(p)) = p

\* The 12-hour clock: 12 for hours 0 and 12, else the hour modulo 12.
TwelveHour(h) == IF h % 12 = 0 THEN 12 ELSE h % 12
Meridiem(h) == IF h < 12 THEN "am" ELSE "pm"

\* The reference calendar agrees with itself on the enumerated dates.
CalendarSane ==
    \A d \in TimestampDates \cup NowDates : CivilFromDays(DayNumber(d)) = d

\* C1: a timestamp on the same local calendar day as now is rendered on the
\* 12-hour clock: two-digit hour in 1..12, colon, two-digit minute, "am" for
\* local hours 0..11 and "pm" for local hours 12..23.
C1_SameDayTwelveHourClock ==
    (Called /\ BothRepresentable /\ DaysAgo = 0) =>
        LET h == LocalHour(timestamp, local_timezone)
            m == LocalMinute(timestamp, local_timezone)
        IN result = Returned(Pad2(TwelveHour(h)) \o ":" \o Pad2(m)
                             \o Meridiem(h))

\* C2: the result starts with "yesterday at " exactly when the timestamp's
\* local calendar date is the day immediately before now's, and what follows
\* the prefix is the text returned for the same clock time on now's day.
C2_YesterdayPrefix ==
    Called =>
        LET isPrev == BothRepresentable /\ DaysAgo = 1
            today  == CivilFromDays(LocalDay(now, local_timezone))
            sameClockToday ==
                MkDateTime(today, LocalHour(timestamp, local_timezone),
                           LocalMinute(timestamp, local_timezone),
                           local_timezone)
        IN /\ isPrev <=> HasPrefix(result.text, "yesterday at ")
           /\ isPrev =>
                /\ ~result.panic
                /\ result.text = "yesterday at " \o
                     format_timestamp(sameClockToday, now, local_timezone).text

\* C2 witness: "yesterday" across a year boundary, a leap day and a month end.
C2_Witness ==
    /\ Called /\ HasPrefix(result.text, "yesterday at ")
    /\ CivilFromDays(LocalDay(now, local_timezone)) \in
          { MkDate(2024, 1, 1), MkDate(2024, 3, 1), MkDate(2024, 5, 1) }

\* C3: a timestamp whose local date is neither now's local date nor the day
\* before it is rendered as the date alone: two-digit month, "/", unpadded
\* day, "/", full year.
C3_DateOnly ==
    (Called /\ BothRepresentable /\ DaysAgo \notin {0, 1}) =>
        LET d == CivilFromDays(LocalDay(timestamp, local_timezone))
        IN result = Returned(Pad2(d.month) \o "/" \o Dec(d.day) \o "/"
                             \o Dec(d.year))

\* C3 witness: a single-digit day two or more days back, printed unpadded.
C3_Witness ==
    /\ Called /\ BothRepresentable /\ DaysAgo >= 2
    /\ result.text = "03/1/2023"

\* C3 witness for a timestamp after now.
C3_WitnessFuture ==
    Called /\ BothRepresentable /\ DaysAgo < 0 /\ result.text = "05/1/2024"

\* C4: format_timestamp has no error path: every call returns one of the
\* three formats.
C4_NoErrorPath ==
    Called =>
        /\ ~result.panic
        /\ \/ HasPrefix(result.text, "yesterday at ")
           \/ Len(result.text) = 7
           \/ \E d \in TimestampDates \cup NowDates \cup
                       { CivilFromDays(LocalDay(timestamp, local_timezone)) } :
                 result.text = Pad2(d.month) \o "/" \o Dec(d.day) \o "/"
                               \o Dec(d.year)

\* C10: the result is the same for every pair of arguments that denote the
\* same two instants, whatever UTC offsets the arguments carry.
C10_OffsetIndependent ==
    Called =>
        \A o1, o2 \in Offsets :
            (Representable(timestamp, o1) /\ Representable(now, o2)) =>
                format_timestamp(Rebase(timestamp, o1), Rebase(now, o2),
                                 local_timezone) = result

\* C10 witness: arguments carrying offsets different from each other and
\* from local_timezone; the pair is same-day here and "yesterday" under
\* another local_timezone.
C10_Witness ==
    /\ Called /\ ~result.panic
    /\ timestamp.offset # now.offset
    /\ timestamp.offset # local_timezone
    /\ now.offset # local_timezone
    /\ Len(result.text) = 7
    /\ \E tz \in Offsets :
          HasPrefix(format_timestamp(timestamp, now, tz).text, "yesterday at ")

(***************************************************************************)
(* notification_window_options.  Coordinates are f32 in the source; the    *)
(* enumerated ones are whole numbers far below 2^24, on which f32          *)
(* addition and subtraction are exact, so integers model them.             *)
(***************************************************************************)

NOTIFICATION_PADDING == 16

\* RectF::upper_right of a rectangle [origin, size]
upper_right(rect) == <<rect.origin[1] + rect.size[1], rect.origin[2]>>

\* lines 125-129: the origin of the window rectangle
WindowOriginPaddedInward(screen_bounds, size) ==
    <<upper_right(screen_bounds)[1] + (NOTIFICATION_PADDING - size[1]),
      upper_right(screen_bounds)[2] + NOTIFICATION_PADDING>>
window_origin(screen_bounds, size) ==
    <<upper_right(screen_bounds)[1] + (-NOTIFICATION_PADDING - size[1]),
      upper_right(screen_bounds)[2] + NOTIFICATION_PADDING>>

notification_window_options(scr, size) ==
    [ bounds     |-> [kind |-> "Fixed",
                      rect |-> [origin |-> window_origin(scr.content_bounds, size),
                                size   |-> size]],
      titlebar   |-> None,
      center     |-> FALSE,
      focus      |-> FALSE,
      show       |-> TRUE,
      kind       |-> "PopUp",
      is_movable |-> FALSE,
      screen     |-> Some(scr) ]

\* Screens: an identity and the content bounds it reports.
Screens ==
    { [id |-> i, content_bounds |-> [origin |-> <<x, y>>, size |-> <<w, h>>]] :
        i \in {1, 2}, x \in {-1920, 0, 1440}, y \in {0, 25},
        w \in {1280, 1920}, h \in {800} }
\* Window sizes, including an empty one and one wider than every screen.
WindowSizes == { <<w, h>> : w \in {0, 300, 400, 2000}, h \in {72, 100} }

InitWin ==
    /\ screen \in Screens
    /\ window_size \in WindowSizes
    /\ options = NoOptions
    /\ FmtIdle /\ ToggleIdle

CallNotificationWindowOptions ==
    /\ options = NoOptions
    /\ options' = notification_window_options(screen, window_size)
    /\ UNCHANGED <<screen, window_size>>
    /\ UNCHANGED fmtVars /\ UNCHANGED toggleVars

NextWin == CallNotificationWindowOptions
SpecWin == InitWin /\ [][NextWin]_vars

\* C8: the window is a fixed rectangle of exactly the requested size whose
\* right edge is 16 left of the content bounds' right edge and whose top edge
\* is 16 below their top edge; a shown, unfocused, immovable pop-up without
\* titlebar on the same screen.
C8_NotificationWindowPlacement ==
    options # NoOptions =>
        LET b      == screen.content_bounds
            right  == b.origin[1] + b.size[1]
            top    == b.origin[2]
            rect   == options.bounds.rect
        IN /\ options.bounds.kind = "Fixed"
           /\ rect.size = window_size
           /\ rect.origin = <<right - 16 - window_size[1], top + 16>>
           /\ rect.origin[1] + rect.size[1] = right - 16
           /\ options.titlebar = None
           /\ options.kind = "PopUp"
           /\ options.is_movable = FALSE
           /\ options.focus = FALSE
           /\ options.show = TRUE
           /\ options.center = FALSE
           /\ options.screen = Some(screen)

\* C8 witness: a window wider than the screen on a screen left of the origin.
C8_Witness ==
    /\ options # NoOptions
    /\ window_size[1] > screen.content_bounds.size[1]
    /\ screen.content_bounds.origin[1] < 0
    /\ options.bounds.rect.origin[1] < screen.content_bounds.origin[1]

(***************************************************************************)
(* The toggle actions.  The room and the active-call registry belong to    *)
(* the call crate; here a room is its three flags, and each of its methods *)
(* either fails at once, or changes the flag and hands back a task that    *)
(* finishes later, well or badly.                                          *)
(***************************************************************************)

\* Dispatches per behaviour.
MaxDispatches == 3

Report(name) == [kind |-> "report", what |-> name]
Call(method) == [kind |-> "call", what |-> method]
Logged(method) == [kind |-> "error_logged", what |-> method]
Task(method, outcome) == [op |-> method, outcome |-> outcome]

\* lines 65-83: the telemetry operation and the room method chosen from
\* room.is_screen_sharing()
ScreenShareOperation(is_sharing) ==
    IF is_sharing THEN "disable screen share" ELSE "enable screen share"

ScreenShareMethodSwapped(is_sharing) ==
    IF is_sharing THEN "share_screen" ELSE "unshare_screen"
ScreenShareMethod(is_sharing) ==
    IF is_sharing THEN "unshare_screen" ELSE "share_screen"

\* lines 94-98: the telemetry operation chosen from room.is_muted()
MuteOperation(is_muted) ==
    IF is_muted THEN "enable microphone" ELSE "disable microphone"

\* The room's methods, as far as the flags go.  res is what the method hands
\* back: "err" an immediate error, otherwise a result or a task.
room_unshare_screen(res) == sharing' = IF res = "ok" THEN FALSE ELSE sharing
room_share_screen == sharing' = TRUE
room_toggle_mute(res) == muted' = IF res = "task" THEN ~muted ELSE muted
room_toggle_deafen(res) ==
    deafened' = IF res = "task" THEN ~deafened ELSE deafened

\* ActiveCall joins a room; it may start muted.
JoinRoom ==
    /\ ~room
    /\ room' = TRUE
    /\ muted' \in BOOLEAN
    /\ deafened' = FALSE
    /\ sharing' = FALSE
    /\ UNCHANGED <<trace, tasks, propagated, dispatched, failures>>
    /\ UNCHANGED fmtVars /\ UNCHANGED winVars

\* ActiveCall leaves the room.
LeaveRoom ==
    /\ room
    /\ room' = FALSE
    /\ UNCHANGED <<muted, deafened, sharing, trace, tasks, propagated,
                   dispatched, failures>>
    /\ UNCHANGED fmtVars /\ UNCHANGED winVars

\* lines 60-87
toggle_screen_sharing ==
    /\ Len(dispatched) < MaxDispatches
    /\ dispatched' = Append(dispatched, "ToggleScreenSharing")
    /\ IF room
       THEN LET method == ScreenShareMethod(sharing)
            IN /\ trace' = trace \o <<Report(ScreenShareOperation(sharing)),
                                      Call(method)>>
               /\ IF method = "unshare_screen"
                  THEN \* Task::ready(room.unshare_screen(cx)): the result is
                       \* known now and looked at when the detached task runs
                       \E res \in {"ok", "err"} :
                          /\ room_unshare_screen(res)
                          /\ failures' = IF res = "err" THEN failures + 1
                                         ELSE failures
                          /\ tasks' = Append(tasks, Task(method, res))
                  ELSE \* room.share_screen(cx): a task that finishes later
                       /\ room_share_screen
                       /\ failures' = failures
                       /\ tasks' = Append(tasks, Task(method, "pending"))
       ELSE UNCHANGED <<trace, sharing, failures, tasks>>
    /\ UNCHANGED <<room, muted, deafened, propagated>>
    /\ UNCHANGED fmtVars /\ UNCHANGED winVars

\* toggle_mute with `?`-style propagation of the immediate error
ToggleMutePropagating ==
    /\ Len(dispatched) < MaxDispatches
    /\ dispatched' = Append(dispatched, "ToggleMute")
    /\ IF room
       THEN \E res \in {"task", "err"} :
               IF res = "task"
               THEN /\ trace' = trace \o <<Report(MuteOperation(muted)),
                                           Call("toggle_mute")>>
                    /\ room_toggle_mute(res)
                    /\ tasks' = Append(tasks, Task("toggle_mute", "pending"))
                    /\ UNCHANGED <<failures, propagated>>
               ELSE /\ trace' = trace \o <<Report(MuteOperation(muted)),
                                           Call("toggle_mute")>>
                    /\ room_toggle_mute(res)
                    /\ failures' = failures + 1
                    /\ propagated' = TRUE
                    /\ UNCHANGED tasks
       ELSE UNCHANGED <<trace, muted, failures, tasks, propagated>>
    /\ UNCHANGED <<room, deafened, sharing>>
    /\ UNCHANGED fmtVars /\ UNCHANGED winVars

\* toggle_mute reporting after the call, from the state the call left
ToggleMuteReportAfter ==
    /\ Len(dispatched) < MaxDispatches
    /\ dispatched' = Append(dispatched, "ToggleMute")
    /\ IF room
       THEN \E res \in {"task", "err"} :
               IF res = "task"
               THEN /\ trace' = trace \o <<Call("toggle_mute"),
                                           Report(MuteOperation(~muted))>>
                    /\ room_toggle_mute(res)
                    /\ tasks' = Append(tasks, Task("toggle_mute", "pending"))
                    /\ UNCHANGED failures
               ELSE /\ trace' = trace \o <<Call("toggle_mute"),
                                           Report(MuteOperation(muted)),
                                           Logged("toggle_mute")>>
                    /\ room_toggle_mute(res)
                    /\ failures' = failures + 1
                    /\ UNCHANGED tasks
       ELSE UNCHANGED <<trace, muted, failures, tasks>>
    /\ UNCHANGED <<room, deafened, sharing, propagated>>
    /\ UNCHANGED fmtVars /\ UNCHANGED winVars

\* lines 89-106
toggle_mute ==
    /\ Len(dispatched) < MaxDispatches
    /\ dispatched' = Append(dispatched, "ToggleMute")
    /\ IF room
       THEN \E res \in {"task", "err"} :
               IF res = "task"
               THEN \* Ok(task): .map(|task| task.detach_and_log_err(cx))
                    /\ trace' = trace \o <<Report(MuteOperation(muted)),
                                           Call("toggle_mute")>>
                    /\ room_toggle_mute(res)
                    /\ tasks' = Append(tasks, Task("toggle_mute", "pending"))
                    /\ UNCHANGED failures
               ELSE \* Err(_): .log_err()
                    /\ trace' = trace \o <<Report(MuteOperation(muted)),
                                           Call("toggle_mute"),
                                           Logged("toggle_mute")>>
                    /\ room_toggle_mute(res)
                    /\ failures' = failures + 1
                    /\ UNCHANGED tasks
       ELSE UNCHANGED <<trace, muted, failures, tasks>>
    /\ UNCHANGED <<room, deafened, sharing, propagated>>
    /\ UNCHANGED fmtVars /\ UNCHANGED winVars

\* toggle_deafen without the `if let Some(room)` guard
ToggleDeafenUnguarded ==
    /\ Len(dispatched) < MaxDispatches
    /\ dispatched' = Append(dispatched, "ToggleDeafen")
    /\ \E res \in {"task", "err"} :
          IF res = "task"
          THEN /\ trace' = Append(trace, Call("toggle_deafen"))
               /\ room_toggle_deafen(res)
               /\ tasks' = Append(tasks, Task("toggle_deafen", "pending"))
               /\ UNCHANGED failures
          ELSE /\ trace' = trace \o <<Call("toggle_deafen"),
                                      Logged("toggle_deafen")>>
               /\ room_toggle_deafen(res)
               /\ failures' = failures + 1
               /\ UNCHANGED tasks
    /\ UNCHANGED <<room, muted, sharing, propagated>>
    /\ UNCHANGED fmtVars /\ UNCHANGED winVars

\* lines 108-114
toggle_deafen ==
    /\ Len(dispatched) < MaxDispatches
    /\ dispatched' = Append(dispatched, "ToggleDeafen")
    /\ IF room
       THEN \E res \in {"task", "err"} :
               IF res = "task"
               THEN /\ trace' = Append(trace, Call("toggle_deafen"))
                    /\ room_toggle_deafen(res)
                    /\ tasks' = Append(tasks, Task("toggle_deafen", "pending"))
                    /\ UNCHANGED failures
               ELSE /\ trace' = trace \o <<Call("toggle_deafen"),
                                           Logged("toggle_deafen")>>
                    /\ room_toggle_deafen(res)
                    /\ failures' = failures + 1
                    /\ UNCHANGED tasks
       ELSE UNCHANGED <<trace, deafened, failures, tasks>>
    /\ UNCHANGED <<room, muted, sharing, propagated>>
    /\ UNCHANGED fmtVars /\ UNCHANGED winVars

RemoveAt(seq, i) == SubSeq(seq, 1, i - 1) \o SubSeq(seq, i + 1, Len(seq))

\* A detached task finishes (detach_and_log_err): its error, if any, is
\* logged and dropped.
TaskFinish ==
    \E i \in 1 .. Len(tasks) :
      \E res \in {"ok", "err"} :
        /\ tasks[i].outcome \in {"pending", res}
        /\ tasks' = RemoveAt(tasks, i)
        /\ trace' = IF res = "err" THEN Append(trace, Logged(tasks[i].op))
                    ELSE trace
        /\ failures' = IF res = "err" /\ tasks[i].outcome = "pending"
                       THEN failures + 1 ELSE failures
        /\ UNCHANGED <<room, muted, deafened, sharing, propagated, dispatched>>
        /\ UNCHANGED fmtVars /\ UNCHANGED winVars

InitToggle == FmtIdle /\ WinIdle /\ ToggleIdle

NextToggle ==
    \/ JoinRoom
    \/ LeaveRoom
    \/ toggle_screen_sharing
    \/ toggle_mute
    \/ toggle_deafen
    \/ TaskFinish

SpecToggle == InitToggle /\ [][NextToggle]_vars

(***************************************************************************)
(* Properties of the toggle actions.                                       *)
(***************************************************************************)

\* This step is a dispatch of a toggle action.
Dispatching == dispatched' # dispatched
\* The action this step dispatches.
Action == dispatched'[Len(dispatched')]
\* What this step adds to the trace.
NewEvents == SubSeq(trace', Len(trace) + 1, Len(trace'))
OfKind(events, k) == SelectSeq(events, LAMBDA e : e.kind = k)
TraceGrows == Len(trace') >= Len(trace) /\ SubSeq(trace', 1, Len(trace)) = trace
FailedReadyTasks(ts) == Len(SelectSeq(ts, LAMBDA t : t.outcome = "err"))

\* C5: with no room in the registry a dispatch of any toggle action calls no
\* room method, reports no telemetry, spawns no task and leaves the room
\* flags as they were.
C5_NoRoomNoOp ==
    [][(Dispatching /\ ~room) =>
          UNCHANGED <<room, muted, deafened, sharing, trace, tasks,
                      propagated, failures>>]_vars

\* C5 witness: a room was joined muted and left; two dispatches later nothing
\* was called, reported or spawned and the flag still stands.
C5_Witness ==
    /\ ~room /\ muted
    /\ Len(dispatched) >= 2
    /\ trace = <<>> /\ tasks = <<>>

\* C6: with a room, a dispatch calls exactly one room method: unshare_screen
\* or share_screen according to whether the room is sharing at that moment,
\* toggle_mute for ToggleMute, toggle_deafen for ToggleDeafen.
C6_RightRoomMethod ==
    [][(Dispatching /\ room) =>
          LET calls == OfKind(NewEvents, "call")
          IN /\ TraceGrows
             /\ Len(calls) = 1
             /\ calls[1].what =
                  CASE Action = "ToggleScreenSharing" ->
                         (IF sharing THEN "unshare_screen" ELSE "share_screen")
                    [] Action = "ToggleMute" -> "toggle_mute"
                    [] Action = "ToggleDeafen" -> "toggle_deafen"]_vars

\* C6 witness: sharing was switched on and then off, and deafen toggled.
C6_Witness ==
    /\ \E i, j \in 1 .. Len(trace) :
          /\ i < j
          /\ trace[i] = Call("share_screen")
          /\ trace[j] = Call("unshare_screen")
    /\ \E k \in 1 .. Len(trace) : trace[k] = Call("toggle_deafen")

\* C7: a failed room operation is logged and swallowed: no error reaches the
\* dispatcher, every failure that has surfaced is in the log, a failure never
\* causes another room call, a dispatch makes at most one room call, and
\* after failures a dispatch still makes its one call.
C7_FailureLoggedAndSwallowed ==
    [][/\ propagated' = FALSE
       /\ TraceGrows
       /\ failures' = Len(OfKind(trace', "error_logged"))
                        + FailedReadyTasks(tasks')
       /\ ~Dispatching => OfKind(NewEvents, "call") = <<>>
       /\ Dispatching => Len(OfKind(NewEvents, "call")) <= 1
       /\ (Dispatching /\ room /\ failures > 0) =>
             Len(OfKind(NewEvents, "call")) = 1]_vars

\* C7 witness: toggle_mute failed at once and was called again by a later
\* dispatch; share_screen failed in its detached task; nothing propagated.
C7_Witness ==
    /\ ~propagated
    /\ \E i, j, k \in 1 .. Len(trace) :
          /\ i < j /\ j < k
          /\ trace[i] = Call("toggle_mute")
          /\ trace[j] = Logged("toggle_mute")
          /\ trace[k] = Call("toggle_mute")
    /\ \E n \in 1 .. Len(trace) : trace[n] = Logged("share_screen")
    /\ tasks = <<>>

\* C9: with a room, toggle_screen_sharing and toggle_mute report exactly one
\* telemetry event per dispatch, before the room method is called, named
\* after the state read before the change; toggle_deafen reports none; no
\* other step reports.
C9_TelemetryBeforeCall ==
    [][LET new     == NewEvents
           reports == OfKind(new, "report")
       IN /\ TraceGrows
          /\ ~Dispatching => reports = <<>>
          /\ (Dispatching /\ room) =>
               CASE Action = "ToggleScreenSharing" ->
                      /\ Len(reports) = 1
                      /\ new[1] = Report(IF sharing THEN "disable screen share"
                                         ELSE "enable screen share")
                      /\ new[2].kind = "call"
                 [] Action = "ToggleMute" ->
                      /\ Len(reports) = 1
                      /\ new[1] = Report(IF muted THEN "enable microphone"
                                         ELSE "disable microphone")
                      /\ new[2].kind = "call"
                 [] Action = "ToggleDeafen" -> reports = <<>>]_vars

\* C9 witness: the room was muted; the report came first, named after that
\* state, and the toggle then failed.
C9_Witness ==
    /\ Len(trace) >= 3
    /\ trace[1] = Report("enable microphone")
    /\ trace[2] = Call("toggle_mute")
    /\ trace[3] = Logged("toggle_mute")
    /\ \E n \in 1 .. Len(trace) : trace[n] = Report("disable screen share")

====
